---- MODULE Spec2Model ----
(***************************************************************************)
(* Neutrosophic numbers a + bI (I^2 = I), their arithmetic, the closed-form *)
(* modular exponentiation pow_mod, random generation, the one-round ZKP     *)
(* protocol and the entry point that runs it twice.                         *)
(*                                                                          *)
(* Four specifications share the variables:                                 *)
(*   Spec      the entry point main() with the protocol calls it makes;     *)
(*   SpecProto the protocol function called on arbitrary (bounded) public   *)
(*             parameters, true secret and tested secret;                   *)
(*   SpecAlg   the arithmetic operators applied to bounded operands;         *)
(*   SpecPow   pow_mod applied to bounded base, exponent and modulus.       *)
(***************************************************************************)
EXTENDS Integers, Sequences, FiniteSets

\* ---------------------------------------------------------------- bounds
\* Bit width main() passes to the generator (2048 in the source, scaled).
ParamBits == 1
\* Bit width the protocol passes to the generator for y (2048, scaled).
ChallengeBits == 1
\* SpecAlg: operand components range over -2..MaxComp.
MaxComp == 4
\* SpecPow: base components range over -MaxBase..MaxBase.
MaxBase == 2
\* SpecPow: exponent components range over -1..MaxExp.
MaxExp == 3
\* SpecPow: modulus components range over -1..MaxMod.
MaxMod == 5
\* SpecProto: generator real part ranges over -1..MaxGen, its I part over -1..1.
MaxGen == 2
\* SpecProto: modulus real part ranges over 1..MaxPMod, its I part over -1..1.
MaxPMod == 3
\* SpecProto: components of the true and the tested secret range over 0..MaxSecret.
MaxSecret == 2

\* ------------------------------------------------------- option values
None == <<>>
Some(v) == <<v>>
Get(o) == o[1]

\* ------------------------------------------------- NeutrosophicNumber
new(a, b) == [a |-> a, b |-> b]

is_positive_mut_ge(n) == n.a >= 0 /\ (n.a + n.b) > 0

is_positive(n) == n.a > 0 /\ (n.a + n.b) > 0

Abs(v) == IF v < 0 THEN -v ELSE v

\* BigUint::modpow on magnitudes: square and multiply, reduced at each step.
RECURSIVE UModPow(_, _, _)
UModPow(base, e, m) ==
    IF e = 0 THEN 1 % m
    ELSE LET h == UModPow(base, e \div 2, m)
             sq == (h * h) % m
         IN  IF e % 2 = 0 THEN sq ELSE (sq * (base % m)) % m

\* BigInt::modpow panics on a negative exponent or a zero modulus.
modpow_panics(e, m) == e < 0 \/ m = 0

modpow_mut_truncated(base, e, m) ==
    LET r == UModPow(Abs(base), e, Abs(m))
    IN  IF base < 0 /\ e % 2 = 1 THEN -r ELSE r

\* BigInt::modpow: the power of the magnitudes, then the sign of the result
\* follows the modulus (mod_floor rounding).
modpow(base, e, m) ==
    LET r == UModPow(Abs(base), e, Abs(m))
        negpow == base < 0 /\ e % 2 = 1
    IN  IF r = 0 THEN 0
        ELSE IF ~negpow /\ m > 0 THEN r
        ELSE IF negpow /\ m > 0 THEN Abs(m) - r
        ELSE IF ~negpow /\ m < 0 THEN -(Abs(m) - r)
        ELSE -r

pow_mod_panics(exp, modulus) ==
    \/ modpow_panics(exp.a, modulus.a)
    \/ modpow_panics(exp.a + exp.b, modulus.a + modulus.b)

pow_mod_mut_noSub(self, exp, modulus) ==
    new(modpow(self.a, exp.a, modulus.a),
        modpow(self.a + self.b, exp.a + exp.b, modulus.a + modulus.b))

pow_mod_mut_realModulus(self, exp, modulus) ==
    LET term1 == modpow(self.a, exp.a, modulus.a)
        term2_base == modpow(self.a + self.b, exp.a + exp.b, modulus.a)
    IN  new(term1, term2_base - term1)

pow_mod(self, exp, modulus) ==
    LET g1 == self.a
        g2 == self.b
        x1 == exp.a
        x2 == exp.b
        p1 == modulus.a
        p2 == modulus.b
        term1 == modpow(g1, x1, p1)
        base_sum == g1 + g2
        exp_sum == x1 + x2
        modulus_sum == p1 + p2
        term2_base == modpow(base_sum, exp_sum, modulus_sum)
        term_i_val == term2_base - term1
    IN  new(term1, term_i_val)

add_mut_subB(self, other) == new(self.a + other.a, self.b - other.b)

add(self, other) == new(self.a + other.a, self.b + other.b)

mul_mut_noBC(self, other) ==
    new(self.a * other.a, self.a * other.b + self.b * other.b)

mul_mut_selfB(self, other) ==
    new(self.a * other.a,
        self.a * other.b + self.b * other.a + self.b * self.b)

mul(self, other) ==
    LET ac == self.a * other.a
        ad == self.a * other.b
        bc == self.b * other.a
        bd == self.b * other.b
    IN  new(ac, ad + bc + bd)

\* ---------------------------------------------------- random generation
Pow2(n) == 2 ^ n

gen_biguint_mut_inclusive(bits) == 0 .. Pow2(bits)

\* rng.gen_biguint(bits): any integer of [0, 2^bits).
gen_biguint(bits) == 0 .. (Pow2(bits) - 1)

\* generate_random_neutrosophic: two separate draws, one per component.
generate_random_neutrosophic(bit_size) ==
    { new(a_val, b_val) : a_val \in gen_biguint(bit_size),
                          b_val \in gen_biguint(bit_size) }

\* ------------------------------------------------------------ variables
VARIABLES
    pc,              \* position in main (or in a harness)
    p, g, x_secret,  \* main: generated parameters (options)
    b,               \* main: public key g^x mod p (option)
    x_fake,          \* main: the impostor's secret (option)
    result_known_x,  \* main: result of test 1 (option)
    result_fake_x,   \* main: result of test 2 (option)
    out,             \* console output, one tag per message
    ppc,             \* position in neutrosophic_one_round_zkp_protocol
    px,              \* protocol argument x (option)
    y, c, r_peggy, r_victor,   \* protocol locals (options)
    ret,             \* protocol return value (option)
    gens,            \* number of generate_random_neutrosophic calls made
    pmCalls,         \* number of pow_mod calls completed
    calls,           \* arguments of the protocol executions started
    X, Y, Z,         \* SpecAlg / SpecPow: operands
    op, res          \* SpecAlg / SpecPow: last operation and its result

vars == <<pc, p, g, x_secret, b, x_fake, result_known_x, result_fake_x, out,
          ppc, px, y, c, r_peggy, r_victor, ret, gens, pmCalls, calls,
          X, Y, Z, op, res>>

mainVars == <<p, g, x_secret, b, x_fake, result_known_x, result_fake_x>>
frameVars == <<px, y, c, r_peggy, r_victor, ret>>
algVars == <<X, Y, Z, op, res>>

Zero == new(0, 0)

InitCommon ==
    /\ b = None /\ x_fake = None
    /\ result_known_x = None /\ result_fake_x = None
    /\ out = <<>>
    /\ ppc = "idle"
    /\ px = None /\ y = None /\ c = None /\ r_peggy = None /\ r_victor = None
    /\ ret = None
    /\ gens = 0 /\ pmCalls = 0 /\ calls = <<>>

AlgIdle == X = Zero /\ Y = Zero /\ Z = Zero /\ op = "none" /\ res = None

\* ------------------------------------------------------------- protocol
\* let y = generate_random_neutrosophic(&mut rng, 2048);
ProtoSampleY ==
    /\ ppc = "gen_y"
    /\ \E v \in generate_random_neutrosophic(ChallengeBits) : y' = Some(v)
    /\ gens' = gens + 1
    /\ ppc' = "challenge"
    /\ UNCHANGED <<pc, mainVars, out, px, c, r_peggy, r_victor, ret, pmCalls,
                   calls, algVars>>

\* let c = g.pow_mod(&y, p);
ProtoChallenge ==
    /\ ppc = "challenge"
    /\ IF pow_mod_panics(Get(y), Get(p))
       THEN /\ ppc' = "panicked" /\ pc' = "panicked"
            /\ UNCHANGED <<c, pmCalls>>
       ELSE /\ c' = Some(pow_mod(Get(g), Get(y), Get(p)))
            /\ pmCalls' = pmCalls + 1
            /\ ppc' = "response"
            /\ pc' = pc
    /\ UNCHANGED <<mainVars, out, px, y, r_peggy, r_victor, ret, gens, calls,
                   algVars>>

\* let r_peggy = c.pow_mod(x, p);
ProtoResponse ==
    /\ ppc = "response"
    /\ IF pow_mod_panics(Get(px), Get(p))
       THEN /\ ppc' = "panicked" /\ pc' = "panicked"
            /\ UNCHANGED <<r_peggy, pmCalls>>
       ELSE /\ r_peggy' = Some(pow_mod(Get(c), Get(px), Get(p)))
            /\ pmCalls' = pmCalls + 1
            /\ ppc' = "verify"
            /\ pc' = pc
    /\ UNCHANGED <<mainVars, out, px, y, c, r_victor, ret, gens, calls,
                   algVars>>

\* let r_victor = b.pow_mod(&y, p);
ProtoVerify ==
    /\ ppc = "verify"
    /\ IF pow_mod_panics(Get(y), Get(p))
       THEN /\ ppc' = "panicked" /\ pc' = "panicked"
            /\ UNCHANGED <<r_victor, pmCalls>>
       ELSE /\ r_victor' = Some(pow_mod(Get(b), Get(y), Get(p)))
            /\ pmCalls' = pmCalls + 1
            /\ ppc' = "compare"
            /\ pc' = pc
    /\ UNCHANGED <<mainVars, out, px, y, c, r_peggy, ret, gens, calls,
                   algVars>>

\* r_peggy == r_victor
ProtoReturn ==
    /\ ppc = "compare"
    /\ ret' = Some(Get(r_peggy) = Get(r_victor))
    /\ ppc' = "returned"
    /\ UNCHANGED <<pc, mainVars, out, px, y, c, r_peggy, r_victor, gens,
                   pmCalls, calls, algVars>>

\* The caller takes the returned value; the callee's frame is gone.
FrameCleared ==
    /\ ppc' = "idle"
    /\ px' = None /\ y' = None /\ c' = None
    /\ r_peggy' = None /\ r_victor' = None /\ ret' = None

Proto == ProtoSampleY \/ ProtoChallenge \/ ProtoResponse \/ ProtoVerify
         \/ ProtoReturn

\* ----------------------------------------------------------------- main
Init ==
    /\ pc = "gen_p"
    /\ p = None /\ g = None /\ x_secret = None
    /\ InitCommon
    /\ AlgIdle

\* let p = generate_random_neutrosophic(&mut rng, bit_length_params);
GenP ==
    /\ pc = "gen_p"
    /\ \E v \in generate_random_neutrosophic(ParamBits) : p' = Some(v)
    /\ gens' = gens + 1
    /\ out' = Append(out, "start")
    /\ pc' = "gen_g"
    /\ UNCHANGED <<g, x_secret, b, x_fake, result_known_x, result_fake_x, ppc,
                   frameVars, pmCalls, calls, algVars>>

\* let g = generate_random_neutrosophic(&mut rng, bit_length_params);
GenG ==
    /\ pc = "gen_g"
    /\ \E v \in generate_random_neutrosophic(ParamBits) : g' = Some(v)
    /\ gens' = gens + 1
    /\ pc' = "gen_x"
    /\ UNCHANGED <<p, x_secret, b, x_fake, result_known_x, result_fake_x, out,
                   ppc, frameVars, pmCalls, calls, algVars>>

\* let x_secret = generate_random_neutrosophic(&mut rng, bit_length_params);
GenX ==
    /\ pc = "gen_x"
    /\ \E v \in generate_random_neutrosophic(ParamBits) : x_secret' = Some(v)
    /\ gens' = gens + 1
    /\ pc' = "check"
    /\ UNCHANGED <<p, g, b, x_fake, result_known_x, result_fake_x, out, ppc,
                   frameVars, pmCalls, calls, algVars>>

ParamsRejected_mut_onlyP(pv, gv) == ~is_positive(pv)

\* if !p.is_positive() || !g.is_positive()
ParamsRejected(pv, gv) == ~is_positive(pv) \/ ~is_positive(gv)

CheckParams ==
    /\ pc = "check"
    /\ IF ParamsRejected(Get(p), Get(g))
       THEN /\ out' = Append(out, "error_params")
            /\ pc' = "aborted"
       ELSE /\ out' = out
            /\ pc' = "compute_b"
    /\ UNCHANGED <<mainVars, ppc, frameVars, gens, pmCalls, calls, algVars>>

\* let b = g.pow_mod(&x_secret, &p); then the parameters are printed.
ComputeB ==
    /\ pc = "compute_b"
    /\ IF pow_mod_panics(Get(x_secret), Get(p))
       THEN /\ pc' = "panicked"
            /\ UNCHANGED <<b, pmCalls, out>>
       ELSE /\ b' = Some(pow_mod(Get(g), Get(x_secret), Get(p)))
            /\ pmCalls' = pmCalls + 1
            /\ out' = Append(out, "params")
            /\ pc' = "test1"
    /\ UNCHANGED <<p, g, x_secret, x_fake, result_known_x, result_fake_x, ppc,
                   frameVars, gens, calls, algVars>>

\* neutrosophic_one_round_zkp_protocol(&g, &p, &b, &x_secret)
Test1Call ==
    /\ pc = "test1" /\ ppc = "idle"
    /\ out' = Append(out, "test1")
    /\ px' = x_secret
    /\ calls' = Append(calls, [g |-> g, p |-> p, b |-> b, x |-> x_secret])
    /\ ppc' = "gen_y"
    /\ pc' = "test1_wait"
    /\ UNCHANGED <<mainVars, y, c, r_peggy, r_victor, ret, gens, pmCalls,
                   algVars>>

Test1Report ==
    /\ pc = "test1_wait" /\ ppc = "returned"
    /\ result_known_x' = ret
    /\ out' = Append(out, IF Get(ret) THEN "test1_successful" ELSE "test1_failed")
    /\ FrameCleared
    /\ pc' = "gen_fake"
    /\ UNCHANGED <<p, g, x_secret, b, x_fake, result_fake_x, gens, pmCalls,
                   calls, algVars>>

\* let x_fake = generate_random_neutrosophic(&mut rng, bit_length_params);
GenFake ==
    /\ pc = "gen_fake"
    /\ \E v \in generate_random_neutrosophic(ParamBits) : x_fake' = Some(v)
    /\ gens' = gens + 1
    /\ out' = Append(out, "test2")
    /\ pc' = "test2"
    /\ UNCHANGED <<p, g, x_secret, b, result_known_x, result_fake_x, ppc,
                   frameVars, pmCalls, calls, algVars>>

Test2Call_mut_trueSecret ==
    /\ pc = "test2" /\ ppc = "idle"
    /\ out' = Append(out, "fake_x")
    /\ px' = x_secret
    /\ calls' = Append(calls, [g |-> g, p |-> p, b |-> b, x |-> x_secret])
    /\ ppc' = "gen_y"
    /\ pc' = "test2_wait"
    /\ UNCHANGED <<mainVars, y, c, r_peggy, r_victor, ret, gens, pmCalls,
                   algVars>>

\* neutrosophic_one_round_zkp_protocol(&g, &p, &b, &x_fake)
Test2Call ==
    /\ pc = "test2" /\ ppc = "idle"
    /\ out' = Append(out, "fake_x")
    /\ px' = x_fake
    /\ calls' = Append(calls, [g |-> g, p |-> p, b |-> b, x |-> x_fake])
    /\ ppc' = "gen_y"
    /\ pc' = "test2_wait"
    /\ UNCHANGED <<mainVars, y, c, r_peggy, r_victor, ret, gens, pmCalls,
                   algVars>>

Test2Report ==
    /\ pc = "test2_wait" /\ ppc = "returned"
    /\ result_fake_x' = ret
    /\ out' = Append(out, IF Get(ret) THEN "test2_succeeded_incorrect"
                                      ELSE "test2_failed_correct")
    /\ FrameCleared
    /\ pc' = "done"
    /\ UNCHANGED <<p, g, x_secret, b, x_fake, result_known_x, gens, pmCalls,
                   calls, algVars>>

Next ==
    \/ GenP \/ GenG \/ GenX \/ CheckParams \/ ComputeB
    \/ Test1Call \/ ProtoSampleY \/ ProtoChallenge \/ ProtoResponse
    \/ ProtoVerify \/ ProtoReturn \/ Test1Report
    \/ GenFake \/ Test2Call \/ Test2Report

Spec == Init /\ [][Next]_vars

\* ------------------------------------------------- claims on the entry point
PastCheck == pc \notin {"gen_p", "gen_g", "gen_x", "check"}

\* C4: when the generated p or g fails the positivity test, the run aborts
\* with the diagnostic: b is never computed, no pow_mod and no protocol
\* execution happens, and nothing is generated beyond the first three values.
C4_AbortOnNonPositive ==
    (PastCheck /\ (~is_positive(Get(p)) \/ ~is_positive(Get(g)))) =>
        /\ pc = "aborted"
        /\ out = <<"start", "error_params">>
        /\ b = None
        /\ pmCalls = 0
        /\ calls = <<>> /\ ppc = "idle" /\ px = None /\ y = None
        /\ result_known_x = None /\ result_fake_x = None
        /\ x_fake = None
        /\ gens = 3

C4_Witness ==
    /\ pc = "aborted"
    /\ is_positive(Get(p)) /\ ~is_positive(Get(g))
    /\ out = <<"start", "error_params">>

ParamLimit == Pow2(ParamBits)
ChallengeLimit == Pow2(ChallengeBits)

InBits(o, limit) ==
    o # None => /\ 0 <= Get(o).a /\ Get(o).a < limit
                /\ 0 <= Get(o).b /\ Get(o).b < limit

\* C8: generation never fails and every generated value has both components
\* in [0, 2^bit_size); the two components are separate draws, so every pair
\* of that range is an outcome of the generator (evaluated once p is drawn).
C8_GeneratedInRange ==
    /\ pc # "panicked"
    /\ InBits(p, ParamLimit) /\ InBits(g, ParamLimit)
    /\ InBits(x_secret, ParamLimit) /\ InBits(x_fake, ParamLimit)
    /\ InBits(y, ChallengeLimit)
    /\ pc = "gen_g" =>
          \A bits \in {ParamBits, ChallengeBits} :
             \A av \in 0 .. (Pow2(bits) - 1), bv \in 0 .. (Pow2(bits) - 1) :
                new(av, bv) \in generate_random_neutrosophic(bits)

C8_Witness ==
    /\ p = Some(new(0, 0))
    /\ g # None /\ Get(g).a # Get(g).b
    /\ x_secret # None /\ Get(x_secret).b = Pow2(ParamBits) - 1

FirstCall == [g |-> g, p |-> p, b |-> b, x |-> x_secret]
SecondCall == [g |-> g, p |-> p, b |-> b, x |-> x_fake]

\* C9: when p and g pass the test, the protocol is executed exactly twice,
\* first with x_secret, then with x_fake, which is generated only after the
\* first execution has returned; both executions get the same g, p and
\* b = pow_mod(g, x_secret, p), each draws one y of its own, none is repeated.
\* (b is compared with pow_mod when it is first passed and at the end; the
\* call log ties every execution's b to that same value.)
C9_TwoExecutionsInOrder ==
    /\ pc = "compute_b" =>
          /\ calls = <<>> /\ gens = 3
          /\ x_fake = None /\ result_known_x = None /\ result_fake_x = None
    /\ pc = "test1" =>
          /\ calls = <<>> /\ gens = 3
          /\ b = Some(pow_mod(Get(g), Get(x_secret), Get(p)))
          /\ x_fake = None /\ result_known_x = None /\ result_fake_x = None
    /\ pc = "test1_wait" =>
          /\ calls = <<FirstCall>> /\ px = x_secret
          /\ gens = (IF ppc = "gen_y" THEN 3 ELSE 4)
          /\ x_fake = None /\ result_known_x = None /\ result_fake_x = None
    /\ pc = "gen_fake" =>
          /\ calls = <<FirstCall>> /\ gens = 4
          /\ x_fake = None /\ result_known_x # None /\ result_fake_x = None
    /\ pc = "test2" =>
          /\ calls = <<FirstCall>> /\ gens = 5
          /\ x_fake # None /\ result_fake_x = None
    /\ pc = "test2_wait" =>
          /\ calls = <<FirstCall, SecondCall>> /\ px = x_fake
          /\ gens = (IF ppc = "gen_y" THEN 5 ELSE 6)
          /\ result_fake_x = None
    /\ pc = "done" =>
          /\ calls = <<FirstCall, SecondCall>>
          /\ b = Some(pow_mod(Get(g), Get(x_secret), Get(p)))
          /\ gens = 6 /\ pmCalls = 7
          /\ result_known_x # None /\ result_fake_x # None
          /\ ppc = "idle"

C9_Witness ==
    /\ pc = "done"
    /\ Len(calls) = 2
    /\ x_fake # x_secret
    /\ result_known_x = Some(TRUE) /\ result_fake_x = Some(FALSE)

ValidModulus(m) == m.a > 0 /\ m.a + m.b > 0
ValidExponent(e) == e.a >= 0 /\ e.b >= 0

\* C10: no run of the entry point panics in pow_mod: each of its pow_mod
\* calls is made with a modulus p with p.a > 0 and p.a + p.b > 0 and with an
\* exponent whose two components are non-negative.
C10_NoDegenerateModulus ==
    /\ pc # "panicked" /\ ppc # "panicked"
    /\ pc = "compute_b" =>
          ValidModulus(Get(p)) /\ ValidExponent(Get(x_secret))
    /\ ppc \in {"challenge", "verify"} =>
          ValidModulus(Get(p)) /\ ValidExponent(Get(y))
    /\ ppc = "response" =>
          ValidModulus(Get(p)) /\ ValidExponent(Get(px))

C10_Witness ==
    /\ pc = "done" /\ pmCalls = 7
    /\ Get(p).a + Get(p).b > Get(p).a

\* ------------------------------------- the protocol on bounded parameters
GenSet == { new(av, bv) : av \in (-1) .. MaxGen, bv \in (-1) .. 1 }
ModSet == { m \in { new(av, bv) : av \in 1 .. MaxPMod, bv \in (-1) .. 1 } :
              is_positive(m) }
SecretSet == { new(av, bv) : av \in 0 .. MaxSecret, bv \in 0 .. MaxSecret }

InitProto ==
    /\ pc = "h_compute_b"
    /\ \E gv \in GenSet : g = Some(gv)
    /\ \E pv \in ModSet : p = Some(pv)
    /\ \E xv \in SecretSet : x_secret = Some(xv)
    /\ InitCommon
    /\ AlgIdle

\* The prover's public key: b = g.pow_mod(&x_secret, &p).
HComputeB ==
    /\ pc = "h_compute_b"
    /\ IF pow_mod_panics(Get(x_secret), Get(p))
       THEN /\ pc' = "panicked"
            /\ UNCHANGED <<b, pmCalls>>
       ELSE /\ b' = Some(pow_mod(Get(g), Get(x_secret), Get(p)))
            /\ pmCalls' = pmCalls + 1
            /\ pc' = "h_call"
    /\ UNCHANGED <<p, g, x_secret, x_fake, result_known_x, result_fake_x, out,
                   ppc, frameVars, gens, calls, algVars>>

\* neutrosophic_one_round_zkp_protocol(&g, &p, &b, &x) for a tested secret x.
HCall ==
    /\ pc = "h_call" /\ ppc = "idle"
    /\ \E xt \in SecretSet :
          /\ px' = Some(xt)
          /\ calls' = Append(calls, [g |-> g, p |-> p, b |-> b, x |-> Some(xt)])
    /\ ppc' = "gen_y"
    /\ pc' = "h_wait"
    /\ UNCHANGED <<mainVars, out, y, c, r_peggy, r_victor, ret, gens, pmCalls,
                   algVars>>

NextProto ==
    \/ HComputeB \/ HCall
    \/ ProtoSampleY \/ ProtoChallenge \/ ProtoResponse \/ ProtoVerify
    \/ ProtoReturn

SpecProto == InitProto /\ [][NextProto]_vars

Sum(n) == n.a + n.b

\* C1: completeness.  With p positive and the components of the secret and
\* of the challenge secret non-negative, the protocol run with the secret x
\* that produced b = pow_mod(g, x, p) returns true: the prover's response
\* and the verifier's value agree on both components.
C1_Completeness ==
    (/\ ppc = "returned"
     /\ px = x_secret
     /\ ValidModulus(Get(p))
     /\ ValidExponent(Get(px)) /\ ValidExponent(Get(y))) =>
        /\ ret = Some(TRUE)
        /\ Get(r_peggy).a = Get(r_victor).a
        /\ Get(r_peggy).b = Get(r_victor).b
        /\ b = Some(pow_mod(Get(g), Get(x_secret), Get(p)))

C1_Witness ==
    /\ ppc = "returned" /\ px = x_secret /\ ret = Some(TRUE)
    /\ Get(g) = new(2, -1) /\ Get(p) = new(3, -1)
    /\ Get(x_secret) = new(1, 2) /\ Get(y) = new(1, 0)
    /\ Get(r_peggy) = new(2, -1)

ImpostorCase ==
    /\ ppc = "returned"
    /\ is_positive(Get(g)) /\ is_positive(Get(p))
    /\ px # x_secret

SameRealPower(xa, xb, yv) ==
    modpow(Get(g).a, xa.a * yv.a, Get(p).a)
        = modpow(Get(g).a, xb.a * yv.a, Get(p).a)
SameSumPower(xa, xb, yv) ==
    modpow(Sum(Get(g)), Sum(xa) * Sum(yv), Sum(Get(p)))
        = modpow(Sum(Get(g)), Sum(xb) * Sum(yv), Sum(Get(p)))

CompSet == { new(av, bv) : av \in (-2) .. MaxComp, bv \in (-2) .. MaxComp }

InitAlg ==
    /\ pc = "alg"
    /\ p = None /\ g = None /\ x_secret = None
    /\ InitCommon
    /\ X \in CompSet /\ Y \in CompSet /\ Z \in CompSet
    /\ op = "none" /\ res = None

BaseSet == { new(av, bv) : av \in (-MaxBase) .. MaxBase,
                           bv \in (-MaxBase) .. MaxBase }
ExpSet == { new(av, bv) : av \in (-1) .. MaxExp, bv \in (-1) .. MaxExp }
PowModSet == { new(av, bv) : av \in (-1) .. MaxMod, bv \in (-1) .. MaxMod }

InitPow ==
    /\ pc = "alg"
    /\ p = None /\ g = None /\ x_secret = None
    /\ InitCommon
    /\ X \in BaseSet /\ Y \in ExpSet /\ Z \in PowModSet
    /\ op = "none" /\ res = None

algRest == <<pc, mainVars, out, ppc, frameVars, gens, pmCalls, calls, X, Y, Z>>

\* X + Y
OpAdd ==
    /\ op = "none"
    /\ res' = Some(add(X, Y))
    /\ op' = "add"
    /\ UNCHANGED algRest

\* X * Y
OpMul ==
    /\ op = "none"
    /\ res' = Some(mul(X, Y))
    /\ op' = "mul"
    /\ UNCHANGED algRest

\* (previous result) + Z
OpThenAdd ==
    /\ op \in {"add", "mul"}
    /\ res' = Some(add(Get(res), Z))
    /\ op' = (IF op = "add" THEN "add_add" ELSE "mul_add")
    /\ UNCHANGED algRest

\* Z * (previous result)
OpThenMul ==
    /\ op \in {"add", "mul"}
    /\ res' = Some(mul(Z, Get(res)))
    /\ op' = (IF op = "add" THEN "add_mul" ELSE "mul_mul")
    /\ UNCHANGED algRest

\* X.pow_mod(&Y, &Z)
OpPowMod ==
    /\ op = "none"
    /\ IF pow_mod_panics(Y, Z)
       THEN /\ op' = "panicked"
            /\ res' = res
       ELSE /\ op' = "pow_mod"
            /\ res' = Some(pow_mod(X, Y, Z))
    /\ UNCHANGED algRest

NextAlg == OpAdd \/ OpMul \/ OpThenAdd \/ OpThenMul \/ OpPowMod

SpecAlg == InitAlg /\ [][NextAlg]_vars

SpecPow == InitPow /\ [][NextAlg]_vars

\* The power as an integer, by repeated multiplication.
RECURSIVE Pow(_, _)
Pow(base, e) == IF e = 0 THEN 1 ELSE base * Pow(base, e - 1)

\* C3: for an exponent x with x.a >= 0 and x.a + x.b >= 0 and a modulus p
\* with p.a > 0 and p.a + p.b > 0, pow_mod(g, x, p) is the pair
\* (term1, term2 - term1) with term1 = g.a^x.a mod p.a and
\* term2 = (g.a + g.b)^(x.a + x.b) mod (p.a + p.b); and
\* pow_mod(2+1I, 3+0I, 5+0I) = 3 + (-1)I.
C3_PowModFormula ==
    /\ (/\ op = "pow_mod"
        /\ Y.a >= 0 /\ Sum(Y) >= 0
        /\ Z.a > 0 /\ Sum(Z) > 0) =>
          LET term1 == Pow(X.a, Y.a) % Z.a
              term2 == Pow(Sum(X), Sum(Y)) % Sum(Z)
          IN  /\ Get(res).a = term1
              /\ Get(res).b = term2 - term1
    /\ (op = "pow_mod" /\ X = new(2, 1) /\ Y = new(3, 0) /\ Z = new(5, 0)) =>
          res = Some(new(3, -1))

C3_Witness ==
    /\ op = "pow_mod"
    /\ X = new(2, 1) /\ Y = new(3, 0) /\ Z = new(5, 0)
    /\ res = Some(new(3, -1))

\* C5: addition is component-wise, commutative and associative, and
\* (1+2I) + (3+4I) = 4+6I.
C5_AddCommAssoc ==
    /\ op = "add" =>
          /\ res = Some(add(Y, X))
          /\ res = Some([a |-> X.a + Y.a, b |-> X.b + Y.b])
    /\ op = "add_add" => res = Some(add(X, add(Y, Z)))
    /\ (op = "add" /\ X = new(1, 2) /\ Y = new(3, 4)) => res = Some(new(4, 6))

C5_Witness ==
    /\ op = "add_add"
    /\ X = new(1, 2) /\ Y = new(3, 4) /\ Z = new(-2, -1)
    /\ res = Some(new(2, 5))

\* C6: multiplication is a1a2 + (a1b2 + b1a2 + b1b2)I, commutative and
\* associative, and (1+2I) * (3+4I) = 3+18I.
C6_MulCommAssoc ==
    /\ op = "mul" =>
          /\ res = Some(mul(Y, X))
          /\ res = Some([a |-> X.a * Y.a,
                         b |-> X.a * Y.b + X.b * Y.a + X.b * Y.b])
    /\ op = "mul_mul" => res = Some(mul(mul(Z, X), Y))
    /\ (op = "mul" /\ X = new(1, 2) /\ Y = new(3, 4)) => res = Some(new(3, 18))

C6_Witness ==
    /\ op = "mul_mul"
    /\ X = new(1, 2) /\ Y = new(3, 4) /\ Z = new(-1, 2)
    /\ res = Some(new(-3, 24))

\* C7: multiplication distributes over addition on both components:
\* Z * (X + Y) = (Z * X) + (Z * Y).
C7_MulDistributesOverAdd ==
    op = "add_mul" =>
        /\ Get(res).a = add(mul(Z, X), mul(Z, Y)).a
        /\ Get(res).b = add(mul(Z, X), mul(Z, Y)).b

C7_Witness ==
    /\ op = "add_mul"
    /\ Z = new(2, -1) /\ X = new(1, 2) /\ Y = new(3, 4)
    /\ res = Some(new(8, 2))

====
